---- MODULE Spec2Model ----
(***************************************************************************)
(* R2 Manager: the file browser of src/app/page.tsx (component R2Manager)  *)
(* over the server actions of src/app/actions.ts.                          *)
(*                                                                         *)
(* Strings are sequences of one-character strings, so that split, join,    *)
(* startsWith and concatenation are computed as the code computes them.    *)
(* Every asynchronous handler is cut at its awaits: the part before the    *)
(* await is one action and the continuation after it is another.  A server *)
(* action that makes one store call resolves in one step: the store        *)
(* answers and the continuation runs on the answer.  copyFile makes two    *)
(* store calls and is cut between them and before its return.  A           *)
(* continuation reads the state its closure captured when the handler was  *)
(* invoked, so every call in flight carries the captured values.           *)
(*                                                                         *)
(* Not modelled: viewMode, isDragging, draggedItem, previewUrl and         *)
(* contextMenu, which only drive the rendering (the upload overlay, the    *)
(* preview pane, the menu's position) and are read by no handler below.    *)
(***************************************************************************)
EXTENDS Integers, Sequences, FiniteSets, Bags, TLC

VARIABLES
    store,          \* the object store: bucket -> (key -> [Size, LastModified])
    now,            \* the store's clock, advanced by every write
    pending,        \* bag of server-action calls in flight, with their closures
    level,          \* 'buckets' | 'files'
    buckets,        \* Bucket[]
    files,          \* R2Object[]
    folders,        \* R2Folder[]
    currentBucket,  \* string | null
    currentPrefix,  \* string
    loading,
    search,
    uploading,
    clipboard,      \* { item, action } | null
    dragData,       \* e.dataTransfer of the drag gesture in progress | null
    selectedFile,   \* R2Object | null
    showPreview,
    sortField,      \* 'name' | 'size' | 'date'
    sortDirection,  \* 'asc' | 'desc'
    toast,          \* the toast the last step raised (none if it raised none)
    filesOf,        \* history: the List call (bucket, prefix) `files` came from
    foldersOf,      \* history: the List call (bucket, prefix) `folders` came from
    nav,            \* history: the latest navigation request and its fate
    clipboardOf     \* history: the List call (bucket, prefix) the clipboard item came from

vars == <<store, now, pending, level, buckets, files, folders, currentBucket,
          currentPrefix, loading, search, uploading, clipboard, dragData,
          selectedFile, showPreview, sortField, sortDirection, toast, filesOf,
          foldersOf, nav, clipboardOf>>

\* null for a string-valued state (currentBucket)
Null == "null"

\* null for an object-valued state or result: an object x is held as <<x>>
None == <<>>
Some(x) == <<x>>

-----------------------------------------------------------------------------
(* Strings *)

Slash == "/"

\* code-unit order of the characters used in keys ('/' is 0x2F, below the letters)
CharCode(c) ==
    CASE c = "/" -> 47
      [] c = "A" -> 65
      [] c = "a" -> 97
      [] c = "b" -> 98
      [] c = "f" -> 102
      [] c = "g" -> 103
      [] c = "u" -> 117

\* String.prototype.startsWith
StartsWith(s, p) ==
    /\ Len(p) <= Len(s)
    /\ SubSeq(s, 1, Len(p)) = p

\* a < b on strings (JavaScript compares code units, shorter prefix first)
RECURSIVE StrLess(_, _)
StrLess(a, b) ==
    IF b = <<>> THEN FALSE
    ELSE IF a = <<>> THEN TRUE
    ELSE IF Head(a) # Head(b) THEN CharCode(Head(a)) < CharCode(Head(b))
    ELSE StrLess(Tail(a), Tail(b))

\* String.prototype.split('/'): the pieces between the slashes, empty ones kept
RECURSIVE SplitAcc(_, _, _)
SplitAcc(s, cur, acc) ==
    IF s = <<>> THEN Append(acc, cur)
    ELSE IF Head(s) = Slash THEN SplitAcc(Tail(s), <<>>, Append(acc, cur))
    ELSE SplitAcc(Tail(s), Append(cur, Head(s)), acc)

Split(s) == SplitAcc(s, <<>>, <<>>)

\* Array.prototype.filter(Boolean) on strings: the empty string is falsy
FilterBoolean(parts) == SelectSeq(parts, LAMBDA p : p # <<>>)

\* Array.prototype.join('/')
RECURSIVE Join(_)
Join(parts) ==
    IF parts = <<>> THEN <<>>
    ELSE IF Len(parts) = 1 THEN parts[1]
    ELSE parts[1] \o <<Slash>> \o Join(Tail(parts))

\* Array.prototype.pop() || dflt: the last element, dflt on an empty array
PopOr(parts, dflt) == IF parts = <<>> THEN dflt ELSE parts[Len(parts)]

\* the array after pop()
Popped(parts) == IF parts = <<>> THEN <<>> ELSE SubSeq(parts, 1, Len(parts) - 1)

\* a set of strings as the sequence in ascending order
RECURSIVE SortedSeq(_)
SortedSeq(S) ==
    IF S = {} THEN <<>>
    ELSE LET m == CHOOSE x \in S : \A y \in S \ {x} : StrLess(x, y)
         IN  <<m>> \o SortedSeq(S \ {m})

\* Array.prototype.filter and map
Filter(seq, Test(_)) == SelectSeq(seq, Test)
Map(seq, F(_)) == [i \in 1..Len(seq) |-> F(seq[i])]

-----------------------------------------------------------------------------
(* Bounds and the world the browser runs against *)

\* server-action calls in flight at once
MaxPending == 2
\* writes (CopyObject, PutObject) the store accepts in one run
MaxWrites == 1

K_f   == <<"f">>
K_g   == <<"g">>
K_ag  == <<"a", "/", "g">>
K_abg == <<"a", "/", "b", "/", "g">>
K_a_g == <<"a", "/", "/", "g">>
K_a   == <<"a">>
K_b   == <<"b">>
K_fg  == <<"f", "/", "g">>
K_aSlash == <<"a", "/">>
K_slashG == <<"/", "g">>
K_A   == <<"A">>

\* an object as the store holds it
Object(size, lastModified) == [Size |-> size, LastModified |-> lastModified]

\* the stores the page is opened on: two buckets, one with nested folders
DeepStore ==
    ("b1" :> ((K_f :> Object(1, 0)) @@ (K_g :> Object(2, 0)) @@ (K_abg :> Object(2, 0)))) @@
    ("b2" :> (K_f :> Object(2, 0)))

\* one bucket with a file and a folder that holds a file
FlatStore ==
    ("b1" :> ((K_f :> Object(1, 0)) @@ (K_ag :> Object(2, 0))))

\* two buckets that hold different objects under the same key f
TwinStore ==
    ("b1" :> ((K_f :> Object(1, 0)) @@ (K_ag :> Object(2, 0)))) @@
    ("b2" :> (K_f :> Object(3, 0)))

\* one bucket with a file g at the root and another file g in the folder a/
CollideStore ==
    ("b1" :> ((K_g :> Object(1, 0)) @@ (K_ag :> Object(2, 0))))

\* one bucket whose only key has an empty path segment (a//g)
OddStore ==
    ("b1" :> (K_a_g :> Object(1, 0)))

\* one bucket whose files sort differently by name, by size and by date, two
\* of them with the same size, and a folder
SortStore ==
    ("b1" :> ((K_a :> Object(20, 1)) @@ (K_b :> Object(10, 0)) @@
              (K_g :> Object(10, 2)) @@ (K_fg :> Object(5, 3))))

\* one bucket with an upper-case key, files that sort differently by name, by
\* size and by date, and the folders a/ and f/
RenderStore ==
    ("b1" :> ((K_A :> Object(20, 1)) @@ (K_b :> Object(10, 0)) @@ (K_g :> Object(10, 2)) @@
              (K_ag :> Object(5, 3)) @@ (K_fg :> Object(5, 3))))

\* one bucket with a zero-byte placeholder object for the folder a/
PlaceholderStore ==
    ("b1" :> ((K_f :> Object(1, 0)) @@ (K_aSlash :> Object(0, 0)) @@ (K_ag :> Object(2, 0))))

\* keys a bucket is filled from: files at the root, keys that share the first
\* segment a at several depths, a placeholder, empty segments
KeyUniverse == {K_f, K_g, K_ag, K_abg, K_a_g, K_aSlash, K_fg, K_slashG}

\* keys in a bucket drawn from the universe
MaxKeys == 3

\* one bucket holding the keys ks
StoreOf(ks) == ("b1" :> [k \in ks |-> Object(Len(k), 0)])

\* the buckets of the account
Buckets == DOMAIN store

\* error messages of the SDK
ErrUnavailable == "ServiceUnavailable"
ErrNoSuchKey == "NoSuchKey"

-----------------------------------------------------------------------------
(* The object store (the S3 API behind r2.send) *)

\* Date.prototype.toISOString, and its inverse new Date(str).getTime()
ToISOString(t) == <<"iso", t>>
DateGetTime(str) == str[2]

\* the part of a key after a prefix
Rest(k, prefix) == SubSeq(k, Len(prefix) + 1, Len(k))

HasSlash(s) == \E i \in 1..Len(s) : s[i] = Slash

\* a string up to and including its first '/'
RECURSIVE UpToSlash(_)
UpToSlash(s) ==
    IF s = <<>> THEN <<>>
    ELSE IF Head(s) = Slash THEN <<Slash>>
    ELSE <<Head(s)>> \o UpToSlash(Tail(s))

\* ListObjectsV2 { Bucket, Prefix, Delimiter: "/" }: Contents
S3Contents(b, prefix) ==
    LET keys == {k \in DOMAIN store[b] :
                    StartsWith(k, prefix) /\ ~HasSlash(Rest(k, prefix))}
    IN  Map(SortedSeq(keys),
            LAMBDA k : [Key |-> k, Size |-> store[b][k].Size,
                        LastModified |-> store[b][k].LastModified])

\* ListObjectsV2 { Bucket, Prefix, Delimiter: "/" }: CommonPrefixes
S3CommonPrefixes(b, prefix) ==
    LET keys == {k \in DOMAIN store[b] :
                    StartsWith(k, prefix) /\ HasSlash(Rest(k, prefix))}
    IN  Map(SortedSeq({prefix \o UpToSlash(Rest(k, prefix)) : k \in keys}),
            LAMBDA p : [Prefix |-> p])

\* a folder name taken from the first segment of the common prefix
FolderNameFirst(p) ==
    LET parts == FilterBoolean(Split(p))
    IN  IF parts = <<>> THEN <<"Unknown">> ELSE parts[1]

\* the folder name listFiles derives from a common prefix
FolderName(p) == PopOr(FilterBoolean(Split(p)), <<"Unknown">>)

\* a filter that lets every object through
KeepsAll(obj, prefix) == TRUE

\* .filter(obj => obj.Key !== prefix): exclude the folder itself if returned
NotTheFolder(obj, prefix) == obj.Key # prefix

\* ListObjectsV2 { Bucket, Prefix, Delimiter: "/" }: the output of r2.send
S3Output(b, prefix) ==
    [Contents |-> S3Contents(b, prefix), CommonPrefixes |-> S3CommonPrefixes(b, prefix)]

\* listFiles after `await r2.send(command)`: the success result it builds from
\* the output (an absent Contents or CommonPrefixes gives [], as an empty one)
Projected(data, prefix) ==
    [success |-> TRUE,
     files |-> Map(Filter(data.Contents, LAMBDA obj : NotTheFolder(obj, prefix)),
                   LAMBDA obj : [Key |-> obj.Key, Size |-> obj.Size,
                                 LastModified |-> ToISOString(obj.LastModified)]),
     folders |-> Map(data.CommonPrefixes,
                     LAMBDA cp : [Prefix |-> cp.Prefix, Name |-> FolderName(cp.Prefix)])]

\* listFiles (server action), the success result
ListFilesResult(b, prefix) == Projected(S3Output(b, prefix), prefix)

\* listBuckets (server action), the success result
ListBucketsResult ==
    [success |-> TRUE,
     buckets |-> Map(SelectSeq(<<"b1", "b2">>, LAMBDA b : b \in Buckets),
                     LAMBDA b : [Name |-> b, CreationDate |-> ToISOString(0)])]

\* the result of a server action whose store call threw
Failure(msg) == [success |-> FALSE, error |-> msg]

-----------------------------------------------------------------------------
(* Calls in flight *)

Reqs == BagToSet(pending)
InFlight == BagCardinality(pending)
Add(bag, r) == bag (+) SetToBag({r})
Remove(bag, r) == bag (-) SetToBag({r})

\* the user can start a handler that makes a server-action call
CanCall == InFlight < MaxPending

\* the store accepts one more write
CanWrite == now < MaxWrites

\* toast.info / success / error / loading, and toast.dismiss
Toast(kind, msg, detail) == [kind |-> kind, msg |-> msg, detail |-> detail]
NoToast == Toast("none", "", "")

\* a toLowerCase that leaves every character as it is
ToLowerCaseNot(s) == s

\* String.prototype.toLowerCase
ToLowerCase(s) ==
    Map(s, LAMBDA c : IF c = "F" THEN "f" ELSE IF c = "A" THEN "a" ELSE c)

\* String.prototype.includes
Includes(s, sub) ==
    \E i \in 0..(Len(s) - Len(sub)) : SubSeq(s, i + 1, i + Len(sub)) = sub

\* Filter files AND folders
filteredFolders ==
    Filter(folders, LAMBDA f : Includes(ToLowerCase(f.Name), ToLowerCase(search)))
\* the value sortFiles compares two files by
SortValue(f) ==
    IF sortField = "size" THEN f.Size
    ELSE IF sortField = "date" THEN DateGetTime(f.LastModified)
    ELSE f.Key

\* valA < valB: on numbers for size and date, on strings for name
ValueLess(valA, valB) ==
    IF sortField \in {"size", "date"} THEN valA < valB ELSE StrLess(valA, valB)

\* the comparator sortFiles passes to Array.prototype.sort
Compare(a, b) ==
    IF ValueLess(SortValue(a), SortValue(b))
    THEN (IF sortDirection = "asc" THEN -1 ELSE 1)
    ELSE IF ValueLess(SortValue(b), SortValue(a))
    THEN (IF sortDirection = "asc" THEN 1 ELSE -1)
    ELSE 0

\* Array.prototype.sort is stable: an element goes before the first element
\* already placed that it must precede
RECURSIVE InsertSorted(_, _)
InsertSorted(sorted, x) ==
    IF sorted = <<>> THEN <<x>>
    ELSE IF Compare(sorted[Len(sorted)], x) <= 0 THEN Append(sorted, x)
    ELSE Append(InsertSorted(SubSeq(sorted, 1, Len(sorted) - 1), x), sorted[Len(sorted)])

RECURSIVE sortFiles(_)
sortFiles(filesToSort) ==
    IF filesToSort = <<>> THEN <<>>
    ELSE InsertSorted(sortFiles(SubSeq(filesToSort, 1, Len(filesToSort) - 1)),
                      filesToSort[Len(filesToSort)])

filteredFiles ==
    sortFiles(Filter(files, LAMBDA f : Includes(ToLowerCase(f.Key), ToLowerCase(search))))

\* the characters of a bucket name
NameChars(name) == IF name = "b1" THEN <<"b", "1">> ELSE <<"b", "2">>

filteredBuckets ==
    Filter(buckets, LAMBDA b : Includes(ToLowerCase(NameChars(b.Name)), ToLowerCase(search)))

\* Breadcrumbs
breadcrumbs == FilterBoolean(Split(currentPrefix))

Range(seq) == {seq[i] : i \in 1..Len(seq)}

\* history: a List call's scope
Loc(b, prefix) == <<b, prefix>>
NoLoc == <<>>

\* history: a navigation request makes every listing call in flight a stale one
Superseded(bag) ==
    LET old(r) == IF r.op = "listFiles" THEN [r EXCEPT !.latest = FALSE] ELSE r
        count(x) == IF x \in DOMAIN bag THEN bag[x] ELSE 0
        fresh(x) == IF x.op = "listFiles" /\ ~x.latest
                    THEN count([x EXCEPT !.latest = TRUE]) ELSE 0
    IN  [x \in {old(r) : r \in BagToSet(bag)} |-> count(x) + fresh(x)]

\* what runs after `await loadFiles(...)` in the caller, with the caller's closure:
\* kind "transfer" is handleCopyMove (source, and drop when handleFolderDrop called
\* it), kind "upload" is uploadFile (rest: the dropped files handleDrop has left)
Cont(kind, source, drop, rest) ==
    [kind |-> kind, source |-> source, drop |-> drop, rest |-> rest]
NoCont == Cont("none", None, FALSE, <<>>)

\* the call loadFiles makes: listFiles(bucketName, prefix)
ListFilesCall(bucketName, prefix, via, latest, cont) ==
    [op |-> "listFiles", bucket |-> bucketName, prefix |-> prefix, via |-> via,
     latest |-> latest, cont |-> cont]

-----------------------------------------------------------------------------
(* Initial state: the component is mounted and its effect has called loadBuckets *)

InitOn(objects) ==
    /\ store = objects
    /\ now = 0
    /\ pending = SetToBag({[op |-> "listBuckets"]})
    /\ level = "buckets"
    /\ buckets = <<>>
    /\ files = <<>>
    /\ folders = <<>>
    /\ currentBucket = Null
    /\ currentPrefix = <<>>
    /\ loading = TRUE
    /\ search = <<>>
    /\ uploading = FALSE
    /\ clipboard = None
    /\ dragData = None
    /\ selectedFile = None
    /\ showPreview = FALSE
    /\ sortField = "name"
    /\ sortDirection = "asc"
    /\ toast = NoToast
    /\ filesOf = NoLoc
    /\ foldersOf = NoLoc
    /\ nav = [bucket |-> Null, prefix |-> <<>>, done |-> TRUE]
    /\ clipboardOf = NoLoc

\* the state once the buckets are listed, bucket b has been opened and its root
\* listing has arrived, with nothing in flight
ListedOn(objects, b) ==
    /\ store = objects
    /\ now = 0
    /\ pending = EmptyBag
    /\ level = "files"
    /\ buckets = ListBucketsResult.buckets
    /\ files = ListFilesResult(b, <<>>).files
    /\ folders = ListFilesResult(b, <<>>).folders
    /\ currentBucket = b
    /\ currentPrefix = <<>>
    /\ loading = FALSE
    /\ search = <<>>
    /\ uploading = FALSE
    /\ clipboard = None
    /\ dragData = None
    /\ selectedFile = None
    /\ showPreview = FALSE
    /\ sortField = "name"
    /\ sortDirection = "asc"
    /\ toast = NoToast
    /\ filesOf = Loc(b, <<>>)
    /\ foldersOf = Loc(b, <<>>)
    /\ nav = [bucket |-> b, prefix |-> <<>>, done |-> TRUE]
    /\ clipboardOf = NoLoc

\* no drag gesture is in progress: the user can click
Idle == dragData = None

\* groups of variables, for the frame conditions
storeVars == <<store, now>>
locVars == <<level, currentBucket, currentPrefix>>
listVars == <<files, folders, filesOf, foldersOf>>
selVars == <<selectedFile, showPreview>>
sortVars == <<sortField, sortDirection>>
clipVars == <<clipboard, clipboardOf>>

-----------------------------------------------------------------------------
(* Listing: loadBuckets and loadFiles *)

\* loadBuckets up to its await
LoadBuckets ==
    /\ loading' = TRUE
    /\ pending' = Add(pending, [op |-> "listBuckets"])

\* listBuckets (server action) resolves; loadBuckets after its await
LoadBucketsDone(r) ==
    /\ r \in Reqs /\ r.op = "listBuckets"
    /\ pending' = Remove(pending, r)
    /\ \E res \in {ListBucketsResult, Failure(ErrUnavailable)} :
         IF res.success
         THEN buckets' = res.buckets /\ toast' = NoToast
         ELSE /\ toast' = Toast("error", "Failed to load buckets", res.error)
              /\ buckets' = buckets
    /\ loading' = FALSE
    /\ UNCHANGED <<sortVars, storeVars, locVars, listVars, search, uploading, clipVars,
                   dragData, selVars, nav>>

\* the call uploadFile makes first: getUploadUrl(currentBucket, key, file.type)
UploadCall(bucketName, prefix, file, rest) ==
    [op |-> "upload", bucket |-> bucketName, prefix |-> prefix,
     key |-> prefix \o file.name, file |-> file, rest |-> rest,
     pc |-> "getUploadUrl"]

\* a drop whose loop stops after the file that has just been handled
UploadReturnsStops(bag, bucketName, prefix, rest) ==
    /\ uploading' = FALSE
    /\ pending' = bag

\* uploadFile returns (finally: setUploading(false)); handleDrop's loop then
\* calls uploadFile for the next dropped file, with the closure it started with
UploadReturns(bag, bucketName, prefix, rest) ==
    IF rest = <<>>
    THEN /\ uploading' = FALSE
         /\ pending' = bag
    ELSE /\ uploading' = TRUE
         /\ pending' = Add(bag, UploadCall(bucketName, prefix, Head(rest), Tail(rest)))

\* a loadFiles that calls listFiles twice
LoadFilesTwice(bucketName, prefix, via, latest) ==
    /\ loading' = TRUE
    /\ pending' = Add(Add(IF latest THEN Superseded(pending) ELSE pending,
                          ListFilesCall(bucketName, prefix, via, latest, NoCont)),
                      ListFilesCall(bucketName, prefix, via, latest, NoCont))

\* loadFiles up to its await
LoadFiles(bucketName, prefix, via, latest) ==
    /\ loading' = TRUE
    /\ pending' = Add(IF latest THEN Superseded(pending) ELSE pending,
                      ListFilesCall(bucketName, prefix, via, latest, NoCont))

\* loadFiles after `await listFiles(...)` with the result res, and then the
\* caller that awaited loadFiles
LoadFilesAnswered(r, res) ==
    /\ IF res.success
       THEN /\ files' = res.files
            /\ folders' = res.folders
            /\ currentBucket' = r.bucket
            /\ currentPrefix' = r.prefix
            /\ level' = "files"
            /\ toast' = NoToast
            /\ filesOf' = Loc(r.bucket, r.prefix)
            /\ foldersOf' = Loc(r.bucket, r.prefix)
            /\ nav' = IF r.latest THEN [nav EXCEPT !.done = TRUE] ELSE nav
       ELSE /\ toast' = Toast("error", "Failed to load files", res.error)
            /\ UNCHANGED <<locVars, listVars, nav>>
    /\ loading' = FALSE
    /\ CASE r.cont.kind = "none" ->
              /\ pending' = Remove(pending, r)
              /\ UNCHANGED <<clipVars, uploading>>
         [] r.cont.kind = "transfer" ->
              \* handleCopyMove: setClipboard(null)
              /\ pending' = Remove(pending, r)
              /\ clipboard' = None
              /\ clipboardOf' = NoLoc
              /\ uploading' = uploading
         [] r.cont.kind = "upload" ->
              /\ UploadReturns(Remove(pending, r), r.bucket, r.prefix, r.cont.rest)
              /\ UNCHANGED clipVars
    /\ UNCHANGED <<sortVars, storeVars, buckets, search, dragData, selVars>>

\* listFiles (server action) resolves
LoadFilesDone(r) ==
    /\ r \in Reqs /\ r.op = "listFiles"
    /\ \E res \in {ListFilesResult(r.bucket, r.prefix), Failure(ErrUnavailable)} :
          LoadFilesAnswered(r, res)

\* the outputs a store may give that is not held to the Prefix and Delimiter
\* of the command: the listing, or the listing followed by one more object of
\* the bucket
LooseOutputs(b, prefix) ==
    LET honest == S3Output(b, prefix)
        listed == {obj.Key : obj \in Range(honest.Contents)}
    IN  {honest} \cup
        {[honest EXCEPT !.Contents =
              Append(@, [Key |-> k, Size |-> store[b][k].Size,
                         LastModified |-> store[b][k].LastModified])] :
           k \in (DOMAIN store[b]) \ listed}

\* listFiles (server action) resolves, against such a store
LoadFilesDoneLoose(r) ==
    /\ r \in Reqs /\ r.op = "listFiles"
    /\ \E res \in {Projected(data, r.prefix) : data \in LooseOutputs(r.bucket, r.prefix)}
                   \cup {Failure(ErrUnavailable)} :
          LoadFilesAnswered(r, res)

-----------------------------------------------------------------------------
(* Navigation *)

handleOpenBucket(bucketName) ==
    /\ Idle /\ CanCall
    /\ level = "buckets"
    /\ bucketName \in {b.Name : b \in Range(filteredBuckets)}
    /\ LoadFiles(bucketName, <<>>, "openBucket", TRUE)
    /\ nav' = [bucket |-> bucketName, prefix |-> <<>>, done |-> FALSE]
    /\ toast' = NoToast
    /\ UNCHANGED <<sortVars, storeVars, locVars, listVars, buckets, search, uploading,
                   clipVars, dragData, selVars>>

\* a handleOpenFolder that leaves the search filter alone
OpenFolderKeepsSearch(prefix, via) ==
    /\ Idle /\ CanCall
    /\ level = "files"
    /\ currentBucket # Null
    /\ LoadFiles(currentBucket, prefix, via, TRUE)
    /\ nav' = [bucket |-> currentBucket, prefix |-> prefix, done |-> FALSE]
    /\ toast' = NoToast
    /\ UNCHANGED <<sortVars, storeVars, locVars, listVars, buckets, search, uploading,
                   clipVars, dragData, selVars>>

\* handleOpenFolder(prefix)
OpenFolder(prefix, via) ==
    /\ Idle /\ CanCall
    /\ level = "files"
    /\ currentBucket # Null
    /\ LoadFiles(currentBucket, prefix, via, TRUE)
    /\ search' = <<>>
    /\ nav' = [bucket |-> currentBucket, prefix |-> prefix, done |-> FALSE]
    /\ toast' = NoToast
    /\ UNCHANGED <<sortVars, storeVars, locVars, listVars, buckets, uploading, clipVars,
                   dragData, selVars>>

\* a click on a folder row
handleOpenFolder(prefix) ==
    /\ prefix \in {f.Prefix : f \in Range(filteredFolders)}
    /\ OpenFolder(prefix, "openFolder")

\* a breadcrumb path without the trailing "/"
BreadcrumbPathBare(i) == Join(SubSeq(breadcrumbs, 1, i + 1))

\* the path a click on breadcrumb i opens
BreadcrumbPath(i) == Join(SubSeq(breadcrumbs, 1, i + 1)) \o <<Slash>>

openBreadcrumb(i) ==
    /\ i \in 0..(Len(breadcrumbs) - 1)
    /\ OpenFolder(BreadcrumbPath(i), "breadcrumb")

\* the prefix handleGoUp loads when the current prefix is not the root
ParentPrefix(prefix) ==
    LET parts == Popped(FilterBoolean(Split(prefix)))
    IN  IF Len(parts) > 0 THEN Join(parts) \o <<Slash>> ELSE <<>>

\* a handleGoUp that leaves the bucket context set at the root
handleGoUpKeepsBucket ==
    /\ Idle
    /\ level = "files"
    /\ currentBucket # Null
    /\ IF currentPrefix = <<>>
       THEN /\ level' = "buckets"
            /\ currentBucket' = currentBucket
            /\ files' = <<>>
            /\ folders' = <<>>
            /\ filesOf' = NoLoc
            /\ foldersOf' = NoLoc
            /\ pending' = Superseded(pending)
            /\ nav' = [bucket |-> Null, prefix |-> <<>>, done |-> TRUE]
            /\ UNCHANGED loading
       ELSE /\ CanCall
            /\ LoadFiles(currentBucket, ParentPrefix(currentPrefix), "goUp", TRUE)
            /\ nav' = [bucket |-> currentBucket,
                       prefix |-> ParentPrefix(currentPrefix), done |-> FALSE]
            /\ UNCHANGED <<level, currentBucket, listVars>>
    /\ search' = <<>>
    /\ toast' = NoToast
    /\ UNCHANGED <<sortVars, storeVars, buckets, currentPrefix, uploading, clipVars,
                   dragData, selVars>>

handleGoUp ==
    /\ Idle
    /\ level = "files"
    /\ currentBucket # Null
    /\ IF currentPrefix = <<>>
       THEN /\ level' = "buckets"
            /\ currentBucket' = Null
            /\ files' = <<>>
            /\ folders' = <<>>
            /\ filesOf' = NoLoc
            /\ foldersOf' = NoLoc
            /\ pending' = Superseded(pending)
            /\ nav' = [bucket |-> Null, prefix |-> <<>>, done |-> TRUE]
            /\ UNCHANGED loading
       ELSE /\ CanCall
            /\ LoadFiles(currentBucket, ParentPrefix(currentPrefix), "goUp", TRUE)
            /\ nav' = [bucket |-> currentBucket,
                       prefix |-> ParentPrefix(currentPrefix), done |-> FALSE]
            /\ UNCHANGED <<level, currentBucket, listVars>>
    /\ search' = <<>>
    /\ toast' = NoToast
    /\ UNCHANGED <<sortVars, storeVars, buckets, currentPrefix, uploading, clipVars,
                   dragData, selVars>>

handleRefresh ==
    /\ Idle /\ CanCall
    /\ IF level = "buckets"
       THEN LoadBuckets
       ELSE /\ currentBucket # Null
            /\ LoadFiles(currentBucket, currentPrefix, "refresh", FALSE)
    /\ toast' = NoToast
    /\ UNCHANGED <<sortVars, storeVars, locVars, listVars, buckets, search, uploading,
                   clipVars, dragData, selVars, nav>>

\* a direction that, once descending, stays descending
ToggledStuck(direction) == "desc"

\* sortDirection === 'asc' ? 'desc' : 'asc'
Toggled(direction) == IF direction = "asc" THEN "desc" ELSE "asc"

\* a click on a column header of the file list
handleSort(field) ==
    /\ Idle
    /\ level = "files"
    /\ field \in {"name", "size", "date"}
    /\ IF sortField = field
       THEN /\ sortDirection' = Toggled(sortDirection)
            /\ UNCHANGED sortField
       ELSE /\ sortField' = field
            /\ sortDirection' = "asc"
    /\ toast' = NoToast
    /\ UNCHANGED <<storeVars, pending, locVars, listVars, buckets, loading, search,
                   uploading, clipVars, dragData, selVars, nav>>

\* what the user types into the filter box
SearchInputs == {<<>>, <<"A">>}

setSearch(value) ==
    /\ Idle
    /\ value \in SearchInputs
    /\ search' = value
    /\ toast' = NoToast
    /\ UNCHANGED <<sortVars, storeVars, pending, locVars, listVars, buckets, loading,
                   uploading, clipVars, dragData, selVars, nav>>

-----------------------------------------------------------------------------
(* Selection and delete *)

handleFileClick(file) ==
    /\ Idle
    /\ level = "files"
    /\ file \in Range(filteredFiles)
    /\ selectedFile' = Some(file)
    /\ showPreview' = TRUE
    /\ toast' = NoToast
    /\ UNCHANGED <<sortVars, storeVars, pending, locVars, listVars, buckets, loading,
                   search, uploading, clipVars, dragData, nav>>

\* the close button of the preview sidebar
closePreview ==
    /\ Idle
    /\ showPreview /\ selectedFile # None
    /\ showPreview' = FALSE
    /\ toast' = NoToast
    /\ UNCHANGED <<sortVars, storeVars, pending, locVars, listVars, buckets, loading,
                   search, uploading, clipVars, dragData, selectedFile, nav>>

\* the keys the user can ask to delete: a file row's menu, or the preview sidebar
DeletableKeys ==
    {f.Key : f \in Range(filteredFiles)} \cup
    (IF showPreview /\ selectedFile # None THEN {selectedFile[1].Key} ELSE {})

\* files.filter(f => f.Key !== key)
WithoutKey(fs, key) == Filter(fs, LAMBDA f : f.Key # key)

\* handleDelete up to its await (the user confirmed the dialog)
handleDelete(key) ==
    /\ Idle /\ CanCall
    /\ level = "files"
    /\ key \in DeletableKeys
    /\ currentBucket # Null
    /\ files' = WithoutKey(files, key)
    /\ pending' = Add(pending,
                      [op |-> "deleteFile", bucket |-> currentBucket, key |-> key,
                       oldFiles |-> files, oldFilesOf |-> filesOf,
                       selectedFile |-> selectedFile])
    /\ toast' = NoToast
    /\ UNCHANGED <<sortVars, storeVars, locVars, folders, filesOf, foldersOf, buckets, loading,
                   search, uploading, clipVars, dragData, selVars, nav>>

\* a store without one key (DeleteObject succeeds also when the key is absent)
StoreWithout(b, key) ==
    [store EXCEPT ![b] = [k \in (DOMAIN store[b]) \ {key} |-> store[b][k]]]

\* a store with an object written under a key
StoreWith(b, key, obj) ==
    [store EXCEPT ![b] = [k \in (DOMAIN store[b]) \cup {key} |->
                            IF k = key THEN obj ELSE store[b][k]]]

\* a rollback that puts the deleted entry back at the end of the current order
RevertedAtEnd(oldFiles, key) ==
    WithoutKey(oldFiles, key) \o Filter(oldFiles, LAMBDA f : f.Key = key)

\* setFiles(oldFiles): what handleDelete puts back when the delete failed
Reverted(oldFiles, key) == oldFiles

\* deleteFile (server action) resolves; handleDelete after its await
DeleteDone(r) ==
    /\ r \in Reqs /\ r.op = "deleteFile"
    /\ pending' = Remove(pending, r)
    /\ \/ \* DeleteObject succeeded
          /\ store' = StoreWithout(r.bucket, r.key)
          /\ toast' = Toast("success", "File deleted", "")
          /\ IF r.selectedFile # None /\ r.selectedFile[1].Key = r.key
             THEN selectedFile' = None /\ showPreview' = FALSE
             ELSE UNCHANGED selVars
          /\ UNCHANGED <<files, filesOf>>
       \/ \* DeleteObject threw
          /\ store' = store
          /\ toast' = Toast("error", "Delete failed", ErrUnavailable)
          /\ files' = Reverted(r.oldFiles, r.key)
          /\ filesOf' = r.oldFilesOf
          /\ UNCHANGED selVars
    /\ UNCHANGED <<sortVars, now, locVars, folders, foldersOf, buckets, loading, search,
                   uploading, clipVars, dragData, nav>>

-----------------------------------------------------------------------------
(* Copy and move: clipboard, drag and drop, copyFile *)

\* encodeURIComponent, and the decoding the store applies to CopySource
EncodeURIComponent(s) == Map(s, LAMBDA c : IF c = Slash THEN "%2F" ELSE c)
DecodeURIComponent(s) == Map(s, LAMBDA c : IF c = "%2F" THEN Slash ELSE c)

\* `${bucketName}/${encodeURIComponent(sourceKey)}`
CopySource(bucketName, sourceKey) == <<bucketName, Slash>> \o EncodeURIComponent(sourceKey)
CopySourceBucket(cs) == cs[1]
CopySourceKey(cs) == DecodeURIComponent(SubSeq(cs, 3, Len(cs)))

\* a destination key built from the whole source key
DestKeyWholeKey(source, targetPrefix) == targetPrefix \o source.Key

\* the first segment of a key instead of its last
BasenameFirst(key) == Split(key)[1]

\* source.Key.split('/').pop()
Basename(key) == PopOr(Split(key), <<>>)

\* the destination key handleCopyMove builds
DestKey(source, targetPrefix) == targetPrefix \o Basename(source.Key)

\* context menu of a file row: Copy to... / Move to...
setClipboard(file, action) ==
    /\ Idle
    /\ level = "files"
    /\ file \in Range(filteredFiles)
    /\ action \in {"copy", "move"}
    /\ clipboard' = Some([item |-> file, action |-> action])
    /\ clipboardOf' = filesOf
    /\ toast' = Toast("info", IF action = "copy" THEN "Copied to clipboard"
                                                 ELSE "Cut to clipboard", "")
    /\ UNCHANGED <<sortVars, storeVars, pending, locVars, listVars, buckets, loading,
                   search, uploading, dragData, selVars, nav>>

\* the X beside the Paste button
cancelClipboard ==
    /\ Idle
    /\ clipboard # None
    /\ clipboard' = None
    /\ clipboardOf' = NoLoc
    /\ toast' = NoToast
    /\ UNCHANGED <<sortVars, storeVars, pending, locVars, listVars, buckets, loading,
                   search, uploading, dragData, selVars, nav>>

\* handleCopyMove up to its await, or to its early return (drop: called by
\* handleFolderDrop)
handleCopyMove(source, targetPrefix, isMove, drop) ==
    /\ IF currentBucket = Null
       THEN /\ toast' = NoToast
            /\ UNCHANGED pending
       ELSE IF source.Key = DestKey(source, targetPrefix)
       THEN /\ toast' = Toast("info", "Source and destination are the same", "")
            /\ UNCHANGED pending
       ELSE /\ CanCall
            /\ toast' = Toast("loading", IF isMove THEN "Moving..." ELSE "Copying...", "")
            /\ pending' = Add(pending,
                   [op |-> "copyFile", bucket |-> currentBucket,
                    prefix |-> currentPrefix, source |-> source, drop |-> drop,
                    copySource |-> CopySource(currentBucket, source.Key),
                    sourceKey |-> source.Key,
                    destKey |-> DestKey(source, targetPrefix),
                    isMove |-> isMove, pc |-> "copy", res |-> None])
    /\ UNCHANGED <<sortVars, storeVars, locVars, listVars, buckets, loading, search, uploading,
                   clipVars, selVars, nav>>

handlePaste ==
    /\ Idle
    /\ clipboard # None
    /\ handleCopyMove(clipboard[1].item, currentPrefix, clipboard[1].action = "move", FALSE)
    /\ UNCHANGED dragData

handleDragStart(file) ==
    /\ Idle
    /\ level = "files"
    /\ file \in Range(filteredFiles)
    /\ dragData' = Some(file)
    /\ toast' = NoToast
    /\ UNCHANGED <<sortVars, storeVars, pending, locVars, listVars, buckets, loading,
                   search, uploading, clipVars, selVars, nav>>

\* a dragged file row is dropped on a folder row
handleFolderDrop(folderPrefix) ==
    /\ dragData # None
    /\ level = "files"
    /\ folderPrefix \in {f.Prefix : f \in Range(filteredFolders)}
    /\ handleCopyMove(dragData[1], folderPrefix, TRUE, TRUE)
    /\ dragData' = None

\* the drag gesture ends anywhere else
dragEnd ==
    /\ dragData # None
    /\ dragData' = None
    /\ toast' = NoToast
    /\ UNCHANGED <<sortVars, storeVars, pending, locVars, listVars, buckets, loading,
                   search, uploading, clipVars, selVars, nav>>

\* copyFile's catch: return { success: false, error: error.message }
CopyFileCaught(msg, deleteFailed) == Failure(msg)

\* a copyFile that goes on to DeleteObject whatever isMove says
AfterCopyAlwaysDeletes(r) == [r EXCEPT !.pc = "delete"]

\* copyFile after CopyObject succeeded: `if (isMove)` the DeleteObject call is
\* next, otherwise it returns { success: true }
AfterCopy(r) ==
    IF r.isMove
    THEN [r EXCEPT !.pc = "delete"]
    ELSE [r EXCEPT !.pc = "copied", !.res = Some([success |-> TRUE])]

\* copyFile (server action): the CopyObject call
ServerCopy(r) ==
    /\ r \in Reqs /\ r.op = "copyFile" /\ r.pc = "copy"
    /\ LET b == CopySourceBucket(r.copySource)
           src == CopySourceKey(r.copySource)
           thrown(msg) ==
               /\ pending' = Add(Remove(pending, r),
                       [r EXCEPT !.pc = "copyThrew",
                                 !.res = Some(CopyFileCaught(msg, FALSE))])
               /\ UNCHANGED storeVars
       IN  \/ thrown(ErrUnavailable)
           \/ /\ src \notin DOMAIN store[b]
              /\ thrown(ErrNoSuchKey)
           \/ /\ src \in DOMAIN store[b]
              /\ CanWrite
              /\ store' = StoreWith(r.bucket, r.destKey,
                                    [Size |-> store[b][src].Size, LastModified |-> now + 1])
              /\ now' = now + 1
              /\ pending' = Add(Remove(pending, r), AfterCopy(r))
    /\ toast' = NoToast
    /\ UNCHANGED <<sortVars, locVars, listVars, buckets, loading, search, uploading,
                   clipVars, dragData, selVars, nav>>

\* copyFile (server action): the DeleteObject call of a move
ServerCopyDelete(r) ==
    /\ r \in Reqs /\ r.op = "copyFile" /\ r.pc = "delete"
    /\ \/ /\ store' = StoreWithout(r.bucket, r.sourceKey)
          /\ pending' = Add(Remove(pending, r),
                 [r EXCEPT !.pc = "moved", !.res = Some([success |-> TRUE])])
       \/ /\ store' = store
          /\ pending' = Add(Remove(pending, r),
                 [r EXCEPT !.pc = "deleteThrew",
                           !.res = Some(CopyFileCaught(ErrUnavailable, TRUE))])
    /\ toast' = NoToast
    /\ UNCHANGED <<sortVars, now, locVars, listVars, buckets, loading, search, uploading,
                   clipVars, dragData, selVars, nav>>

\* handleCopyMove after `await copyFile(...)`, up to `await loadFiles(...)`
CopyMoveDone(r) ==
    /\ r \in Reqs /\ r.op = "copyFile" /\ r.res # None
    /\ LET res == r.res[1] IN
         IF res.success
         THEN /\ toast' = Toast("success", IF r.isMove THEN "Moved successfully"
                                                       ELSE "Copied successfully", "")
              /\ loading' = TRUE
              /\ pending' = Add(Remove(pending, r),
                     ListFilesCall(r.bucket, r.prefix, "transfer", FALSE,
                                   Cont("transfer", Some(r.source), r.drop, <<>>)))
         ELSE /\ toast' = Toast("error", IF r.isMove THEN "Failed to move"
                                                     ELSE "Failed to copy", res.error)
              /\ pending' = Remove(pending, r)
              /\ UNCHANGED loading
    /\ UNCHANGED <<sortVars, storeVars, locVars, listVars, buckets, search, uploading,
                   clipVars, dragData, selVars, nav>>

-----------------------------------------------------------------------------
(* Upload: uploadFile, handleFileChange, handleDrop *)

FileU == [name |-> <<"u">>, size |-> 3, type |-> "text/plain"]
FileG == [name |-> <<"g">>, size |-> 3, type |-> "text/plain"]

\* what the user picks in the file dialog, and what the user drops on the page
PickedFiles == {FileU}
DroppedFiles == {<<FileU>>, <<FileU, FileG>>}

\* uploadFile up to its first await
uploadFile(file, rest) ==
    /\ currentBucket # Null
    /\ CanCall
    /\ uploading' = TRUE
    /\ pending' = Add(pending, UploadCall(currentBucket, currentPrefix, file, rest))
    /\ toast' = NoToast
    /\ UNCHANGED <<sortVars, storeVars, locVars, listVars, buckets, loading, search, clipVars,
                   dragData, selVars, nav>>

\* the file input behind the Upload button (disabled while uploading)
handleFileChange(file) ==
    /\ Idle
    /\ level = "files" /\ ~uploading
    /\ file \in PickedFiles
    /\ uploadFile(file, <<>>)

\* files from outside the page are dropped on the main area
handleDrop(dropped) ==
    /\ Idle
    /\ level = "files" /\ currentBucket # Null
    /\ dropped \in DroppedFiles
    /\ uploadFile(Head(dropped), Tail(dropped))

\* getUploadUrl (server action) resolves; uploadFile after its await, up to
\* `await fetch(url, ...)`
UploadUrlDone(r) ==
    /\ r \in Reqs /\ r.op = "upload" /\ r.pc = "getUploadUrl"
    /\ \E res \in {[success |-> TRUE, url |-> [bucket |-> r.bucket, key |-> r.key]],
                   Failure(ErrUnavailable)} :
         IF res.success
         THEN /\ pending' = Add(Remove(pending, r),
                     [r EXCEPT !.pc = "fetch"])
              /\ toast' = NoToast
              /\ UNCHANGED uploading
         ELSE /\ toast' = Toast("error", res.error, "")
              /\ UploadReturns(Remove(pending, r), r.bucket, r.prefix, r.rest)
    /\ UNCHANGED <<sortVars, storeVars, locVars, listVars, buckets, loading, search,
                   clipVars, dragData, selVars, nav>>

\* the PUT to the presigned URL resolves; uploadFile after `await fetch(url, ...)`,
\* up to `await loadFiles(...)`
UploadFetchDone(r) ==
    /\ r \in Reqs /\ r.op = "upload" /\ r.pc = "fetch"
    /\ \/ \* uploadRes.ok
          /\ CanWrite
          /\ store' = StoreWith(r.bucket, r.key,
                                [Size |-> r.file.size, LastModified |-> now + 1])
          /\ now' = now + 1
          /\ toast' = Toast("success", "Uploaded", r.file.name)
          /\ loading' = TRUE
          /\ pending' = Add(Remove(pending, r),
                 ListFilesCall(r.bucket, r.prefix, "upload", FALSE,
                               Cont("upload", None, FALSE, r.rest)))
          /\ UNCHANGED uploading
       \/ \* !uploadRes.ok
          /\ UNCHANGED <<storeVars, loading>>
          /\ toast' = Toast("error", "Upload to R2 failed", "")
          /\ UploadReturns(Remove(pending, r), r.bucket, r.prefix, r.rest)
    /\ UNCHANGED <<sortVars, locVars, listVars, buckets, search, clipVars, dragData,
                   selVars, nav>>

-----------------------------------------------------------------------------
(* The browser *)

\* what the handlers are called with
Prefixes == {f.Prefix : f \in Range(folders)}
Files == Range(files)

\* listing and navigation
NextNav ==
    \/ \E r \in Reqs : LoadBucketsDone(r)
    \/ \E r \in Reqs : LoadFilesDone(r)
    \/ \E b \in Buckets : handleOpenBucket(b)
    \/ \E p \in Prefixes : handleOpenFolder(p)
    \/ \E i \in 0..(Len(breadcrumbs) - 1) : openBreadcrumb(i)
    \/ handleGoUp
    \/ handleRefresh

\* delete
NextDelete ==
    \/ \E k \in DeletableKeys : handleDelete(k)
    \/ \E r \in Reqs : DeleteDone(r)

\* copy and move
NextTransfer ==
    \/ \E f \in Files, a \in {"copy", "move"} : setClipboard(f, a)
    \/ cancelClipboard
    \/ handlePaste
    \/ \E f \in Files : handleDragStart(f)
    \/ \E p \in Prefixes : handleFolderDrop(p)
    \/ dragEnd
    \/ \E r \in Reqs : ServerCopy(r)
    \/ \E r \in Reqs : ServerCopyDelete(r)
    \/ \E r \in Reqs : CopyMoveDone(r)

\* search and preview
NextView ==
    \/ \E v \in SearchInputs : setSearch(v)
    \/ \E f \in Files : handleFileClick(f)
    \/ closePreview

\* sorting
NextSort ==
    \E field \in {"name", "size", "date"} : handleSort(field)

\* upload
NextUpload ==
    \/ \E f \in PickedFiles : handleFileChange(f)
    \/ \E d \in DroppedFiles : handleDrop(d)
    \/ \E r \in Reqs : UploadUrlDone(r)
    \/ \E r \in Reqs : UploadFetchDone(r)

\* listing and navigation against a store not held to the command's Prefix
NextLoose ==
    \/ \E r \in Reqs : LoadBucketsDone(r)
    \/ \E r \in Reqs : LoadFilesDoneLoose(r)
    \/ \E b \in Buckets : handleOpenBucket(b)
    \/ \E p \in Prefixes : handleOpenFolder(p)
    \/ \E i \in 0..(Len(breadcrumbs) - 1) : openBreadcrumb(i)
    \/ handleGoUp
    \/ handleRefresh

SpecNav == InitOn(DeepStore) /\ [][NextNav]_vars
SpecNavOdd == InitOn(OddStore) /\ [][NextNav]_vars
SpecDelete == InitOn(DeepStore) /\ [][NextNav \/ NextDelete]_vars
SpecTransfer == InitOn(FlatStore) /\ [][NextNav \/ NextTransfer]_vars
SpecUpload == InitOn(FlatStore) /\ [][NextNav \/ NextUpload]_vars
SpecView == InitOn(FlatStore) /\ [][NextNav \/ NextView \/ NextDelete]_vars
SpecSort == InitOn(SortStore) /\ [][NextNav \/ NextSort]_vars
SpecPlaceholder == InitOn(PlaceholderStore) /\ [][NextNav]_vars
SpecLoose == InitOn(DeepStore) /\ [][NextLoose]_vars
SpecCollide == InitOn(CollideStore) /\ [][NextNav \/ NextTransfer]_vars
SpecDeleteListed == ListedOn(SortStore, "b1") /\ [][NextDelete]_vars
SpecClipboard == InitOn(TwinStore) /\ [][NextNav \/ NextTransfer]_vars
SpecRender == InitOn(RenderStore) /\ [][NextNav \/ NextView \/ NextSort]_vars
SpecProjector ==
    /\ \E ks \in {x \in SUBSET KeyUniverse : Cardinality(x) <= MaxKeys} : InitOn(StoreOf(ks))
    /\ [][NextNav]_vars

-----------------------------------------------------------------------------
(* Properties *)

\* a step adds a copy of call r to the calls in flight / takes one away
Issued(r) == CopiesIn(r, pending') > CopiesIn(r, pending)
Resolved(r) == CopiesIn(r, pending') < CopiesIn(r, pending)

\* a step in which a call's result arrives
ResultArrives == BagCardinality(pending') < BagCardinality(pending)

\* the browser displays location n with the listing of n
Shows(n) ==
    /\ level = "files"
    /\ currentBucket = n.bucket /\ currentPrefix = n.prefix
    /\ filesOf = Loc(n.bucket, n.prefix) /\ foldersOf = Loc(n.bucket, n.prefix)

\* a listing call made by a navigation that a later navigation has superseded
StaleNav(r) ==
    /\ r.op = "listFiles" /\ ~r.latest
    /\ r.via \in {"openBucket", "openFolder", "breadcrumb", "goUp"}

\* C1: when navigation Y was requested after navigation X and the browser
\* already displays Y's location and listing, the arrival of X's response
\* leaves Y's location and listing displayed.
C1_NavigationSupersedes ==
    [][\A r \in Reqs :
          (StaleNav(r) /\ Resolved(r) /\ nav.bucket # Null /\ nav.done /\ Shows(nav))
              => Shows(nav)']_vars

\* C2: whenever a bucket is open, the displayed files and folders come from a
\* List call for exactly the displayed bucket and prefix.
C2_ListingOfDisplayedLocation ==
    level = "files" =>
        /\ filesOf = Loc(currentBucket, currentPrefix)
        /\ foldersOf = Loc(currentBucket, currentPrefix)

\* C3: a delete request removes the entry from the displayed file sequence
\* before the store answers and captures the sequence as it was; a failed
\* delete sets the displayed sequence to exactly the captured one, a
\* successful delete leaves the displayed sequence as it is.
C3_OptimisticDeleteExactRollback ==
    [][/\ \A r \in BagToSet(pending') :
             (r.op = "deleteFile" /\ Issued(r)) =>
                 /\ r.oldFiles = files
                 /\ files' = SelectSeq(files, LAMBDA f : f.Key # r.key)
                 /\ \A i \in 1..Len(files') : files'[i].Key # r.key
                 /\ store' = store
       /\ \A r \in Reqs :
             (r.op = "deleteFile" /\ Resolved(r)) =>
                 IF toast'.msg = "Delete failed"
                 THEN files' = r.oldFiles /\ store' = store
                 ELSE files' = files]_vars

\* a failed delete has just put back a two-entry listing of the displayed location
C3_Witness ==
    /\ toast.msg = "Delete failed"
    /\ level = "files" /\ filesOf = Loc(currentBucket, currentPrefix)
    /\ Len(files) = 2

\* the results copyFile returns when the CopyObject call itself failed
CopyFailureResults ==
    {CopyFileCaught(msg, FALSE) : msg \in {ErrUnavailable, ErrNoSuchKey}}

\* C4: when the Copy of a move succeeded and its Delete failed, the object is
\* at both the source and the destination key, and the result reported for the
\* transfer is a failure that differs from every result of a failed Copy.
C4_PartialTransferFailureDistinct ==
    \A r \in Reqs :
        (r.op = "copyFile" /\ r.pc = "deleteThrew") =>
            /\ r.sourceKey \in DOMAIN store[r.bucket]
            /\ r.destKey \in DOMAIN store[r.bucket]
            /\ ~r.res[1].success
            /\ r.res[1] \notin CopyFailureResults

\* C5: an object leaves the store only through the Delete of a move whose Copy
\* has succeeded; a transfer reaches its Delete only when it is a move and its
\* own Copy has written the destination; a failed Copy leaves the store as it
\* was and is followed by no Delete.
C5_DeleteOnlyAfterCopy ==
    [][/\ \A b \in DOMAIN store : \A k \in DOMAIN store[b] :
             k \notin DOMAIN store'[b] =>
                 \E r \in Reqs :
                     /\ r.op = "copyFile" /\ r.isMove /\ r.pc = "delete"
                     /\ r.bucket = b /\ r.sourceKey = k
       /\ \A q \in BagToSet(pending') :
             (q.op = "copyFile" /\ Issued(q)) =>
                 /\ q.pc = "delete" =>
                        /\ q.isMove
                        /\ [q EXCEPT !.pc = "copy"] \in Reqs
                        /\ q.destKey \in DOMAIN store'[q.bucket]
                 /\ q.pc \in {"moved", "deleteThrew"} =>
                        /\ q.isMove
                        /\ [q EXCEPT !.pc = "delete", !.res = None] \in Reqs
                 /\ q.pc = "copyThrew" =>
                        /\ store' = store
                        /\ [q EXCEPT !.pc = "copy", !.res = None] \in Reqs]_vars

\* a move has copied its object to the destination and deleted the source
C5_Witness ==
    \E r \in Reqs :
        /\ r.op = "copyFile" /\ r.isMove /\ r.pc = "moved"
        /\ r.sourceKey \notin DOMAIN store[r.bucket]
        /\ r.destKey \in DOMAIN store[r.bucket]

\* the part of a key after its last "/"
RECURSIVE LastSegment(_)
LastSegment(key) ==
    IF \E i \in 1..Len(key) : key[i] = Slash
    THEN LastSegment(Tail(key))
    ELSE key

\* the transfer of source to targetPrefix has the source's own key as destination
SameKey(source, targetPrefix) == targetPrefix \o LastSegment(source.Key) = source.Key

\* a step that calls nothing, reports an informational status and leaves the
\* store, the listing, the location and the clipboard as they were
NoOpReported ==
    /\ pending' = pending /\ store' = store
    /\ toast'.kind = "info"
    /\ UNCHANGED <<files, folders, level, currentBucket, currentPrefix, clipboard>>

\* C6: a paste or a folder drop whose destination key equals the source key
\* issues no store call, reports an informational status and leaves the listing,
\* the location and the clipboard unchanged.
C6_NoOpTransfer ==
    [][/\ (handlePaste /\ SameKey(clipboard[1].item, currentPrefix)) => NoOpReported
       /\ \A p \in Prefixes :
             (handleFolderDrop(p) /\ SameKey(dragData[1], p)) => NoOpReported]_vars

\* C6, with a bucket open: a paste or a folder drop whose destination key
\* equals the source key issues no store call, reports an informational status
\* and leaves the listing, the location and the clipboard unchanged; a paste at
\* the bucket list issues no store call, reports nothing and changes nothing.
C6_NoOpTransferInBucket ==
    [][/\ (handlePaste /\ currentBucket # Null
             /\ SameKey(clipboard[1].item, currentPrefix)) => NoOpReported
       /\ (handlePaste /\ currentBucket = Null) =>
             /\ pending' = pending /\ store' = store
             /\ toast' = NoToast
             /\ UNCHANGED <<files, folders, level, currentBucket, currentPrefix,
                            clipboard>>
       /\ \A p \in Prefixes :
             (handleFolderDrop(p) /\ SameKey(dragData[1], p)) => NoOpReported]_vars

\* a paste into the clipboard item's own folder has just been reported as a no-op
C6_Witness ==
    /\ currentBucket # Null
    /\ clipboard # None
    /\ SameKey(clipboard[1].item, currentPrefix)
    /\ toast = Toast("info", "Source and destination are the same", "")

\* the transfers whose store call has not answered yet
AwaitingStore == {r \in Reqs : r.op = "copyFile" /\ r.pc \in {"copy", "delete"}}

\* C7: at most one transfer is waiting for the store at any time.
C7_AtMostOneTransfer ==
    /\ Cardinality(AwaitingStore) <= 1
    /\ \A r \in AwaitingStore : CopiesIn(r, pending) = 1

\* C8: when the refresh that follows a successful transfer completes, the
\* clipboard is cleared if it holds the transferred item and is left as it is
\* otherwise.
C8_ClipboardClearedIfMatches ==
    [][\A r \in Reqs :
          (r.op = "listFiles" /\ r.cont.kind = "transfer" /\ Resolved(r)) =>
              clipboard' = IF clipboard # None
                              /\ clipboard[1].item.Key = r.cont.source[1].Key
                           THEN None
                           ELSE clipboard]_vars

\* C9: the clipboard is one slot: Copy or Move on a file replaces its content;
\* nothing else fills it; it becomes empty only by cancel or when a successful
\* paste completes; a paste is only started from a non-empty clipboard, for the
\* item it holds.
C9_ClipboardSingleSlot ==
    [][/\ \A f \in Files, a \in {"copy", "move"} :
             setClipboard(f, a) => clipboard' = Some([item |-> f, action |-> a])
       /\ (clipboard' # clipboard /\ clipboard' # None) =>
             \E f \in Files, a \in {"copy", "move"} : setClipboard(f, a)
       /\ (clipboard # None /\ clipboard' = None) =>
             \/ cancelClipboard
             \/ \E r \in Reqs :
                    /\ r.op = "listFiles" /\ r.cont.kind = "transfer"
                    /\ ~r.cont.drop /\ Resolved(r)
       /\ \A q \in BagToSet(pending') :
             (q.op = "copyFile" /\ q.pc = "copy" /\ ~q.drop /\ Issued(q)) =>
                 clipboard # None /\ q.source = clipboard[1].item]_vars

\* a prefix without its last "/"-delimited segment
RECURSIVE DropSegment(_)
DropSegment(s) ==
    IF s = <<>> \/ s[Len(s)] = Slash THEN s ELSE DropSegment(SubSeq(s, 1, Len(s) - 1))
ParentOf(prefix) == DropSegment(SubSeq(prefix, 1, Len(prefix) - 1))

\* C10: goUp at a bucket's root shows the bucket list, clears the current
\* bucket and the listing and calls nothing; goUp elsewhere issues exactly one
\* List call, for the current bucket and the prefix without its last segment,
\* and the displayed prefix becomes that prefix when the call succeeds.
C10_GoUp ==
    [][/\ handleGoUp =>
             IF currentPrefix = <<>>
             THEN /\ level' = "buckets" /\ currentBucket' = Null
                  /\ files' = <<>> /\ folders' = <<>>
                  /\ BagCardinality(pending') = BagCardinality(pending)
                  /\ store' = store
             ELSE /\ BagCardinality(pending') = BagCardinality(pending) + 1
                  /\ \E q \in BagToSet(pending') :
                        /\ Issued(q) /\ q.op = "listFiles"
                        /\ q.bucket = currentBucket
                        /\ q.prefix = ParentOf(currentPrefix)
                  /\ UNCHANGED <<level, currentBucket, currentPrefix>>
       /\ \A r \in Reqs :
             (r.op = "listFiles" /\ r.via = "goUp" /\ Resolved(r) /\ ResultArrives
                 /\ toast'.kind # "error") =>
                 level' = "files" /\ currentBucket' = r.bucket /\ currentPrefix' = r.prefix]_vars

\* the listFiles calls in flight for bucket b and prefix p
ListCalls(bag, b, p) ==
    LET rs == {r \in BagToSet(bag) : r.op = "listFiles" /\ r.bucket = b /\ r.prefix = p}
    IN  BagCardinality([r \in rs |-> bag[r]])

\* a step that issues one call, a listFiles call for (b, p), and nothing else
OneListCall(b, p) ==
    /\ BagCardinality(pending') = BagCardinality(pending) + 1
    /\ ListCalls(pending', b, p) = ListCalls(pending, b, p) + 1

\* a step that issues no call
NoCall ==
    /\ BagCardinality(pending') = BagCardinality(pending)
    /\ \A b \in Buckets, p \in {r.prefix : r \in {x \in BagToSet(pending') : x.op = "listFiles"}} :
          ListCalls(pending', b, p) = ListCalls(pending, b, p)

\* the prefix made of the first n segments of a prefix, each with its "/"
RECURSIVE FirstSegments(_, _)
FirstSegments(prefix, n) ==
    IF n = 0 \/ prefix = <<>> THEN <<>>
    ELSE <<Head(prefix)>> \o
         FirstSegments(Tail(prefix), IF Head(prefix) = Slash THEN n - 1 ELSE n)

\* what a step of openBucket, openFolder or openBreadcrumb must call
OpenCallsOnce ==
    /\ \A b \in Buckets : handleOpenBucket(b) => OneListCall(b, <<>>)
    /\ \A p \in Prefixes : handleOpenFolder(p) => OneListCall(currentBucket, p)
    /\ \A i \in 0..(Len(breadcrumbs) - 1) :
          openBreadcrumb(i) => OneListCall(currentBucket, FirstSegments(currentPrefix, i + 1))

\* C11: each of openBucket, openFolder, openBreadcrumb and goUp issues exactly
\* one call, a listFiles call for the target bucket and prefix.
C11_OneListPerTransition ==
    [][/\ OpenCallsOnce
       /\ handleGoUp => OneListCall(currentBucket, ParentOf(currentPrefix))]_vars

\* C11, with goUp at a bucket's root set apart: openBucket, openFolder,
\* openBreadcrumb and goUp below the root each issue exactly one call, a
\* listFiles call for the target bucket and prefix; goUp at the root, which
\* leads to the bucket list, issues no call.
C11_OneListPerFolderTransition ==
    [][/\ OpenCallsOnce
       /\ (handleGoUp /\ currentPrefix # <<>>) =>
             OneListCall(currentBucket, ParentOf(currentPrefix))
       /\ (handleGoUp /\ currentPrefix = <<>>) => NoCall]_vars

\* a breadcrumb click from a/b/ has its one listFiles call for a/ in flight
C11_Witness ==
    /\ currentPrefix = <<"a", Slash, "b", Slash>>
    /\ BagCardinality(pending) = 1
    /\ \E r \in Reqs :
          /\ r.op = "listFiles" /\ r.via = "breadcrumb"
          /\ r.bucket = currentBucket /\ r.prefix = <<"a", Slash>>

\* a step in which a handler requests a listing: it adds a listFiles call to
\* the calls in flight
RequestsListing ==
    /\ BagCardinality(pending') = BagCardinality(pending) + 1
    /\ \E q \in BagToSet(pending') : q.op = "listFiles" /\ Issued(q) /\ q.cont.kind = "none"

\* a step in which the failure of a store call is reported
FailureReported == toast'.kind = "error"

\* C12: a failed store call is reported and changes no local state but the
\* rollback of an optimistic delete; in particular neither the request of a
\* listing nor its failure changes the location, the files, the folders, the
\* clipboard or the search filter, so that after the failure they are what they
\* were before the request.
C12_FailureMutatesNothing ==
    [][/\ RequestsListing =>
             UNCHANGED <<level, currentBucket, currentPrefix, files, folders,
                         clipboard, search>>
       /\ FailureReported =>
             /\ UNCHANGED <<level, currentBucket, currentPrefix, folders, buckets,
                            clipboard, search, selectedFile>>
             /\ \/ files' = files
                \/ \E r \in Reqs :
                      r.op = "deleteFile" /\ Resolved(r) /\ files' = r.oldFiles]_vars

\* C13: a folder click, a breadcrumb click and goUp each leave the search
\* filter empty.
C13_NavigationClearsSearch ==
    [][(\/ \E p \in Prefixes : handleOpenFolder(p)
        \/ \E i \in 0..(Len(breadcrumbs) - 1) : openBreadcrumb(i)
        \/ handleGoUp)
          => search' = <<>>]_vars

\* a folder click has its listing call in flight and the search filter is empty
C13_Witness ==
    /\ search = <<>>
    /\ ~nav.done
    /\ \E r \in Reqs : r.op = "listFiles" /\ r.via = "openFolder" /\ r.latest

\* C14: the completion of a refresh's listing call leaves the level, the
\* current bucket and the current prefix as they were just before it.
C14_RefreshKeepsLocation ==
    [][\A r \in Reqs :
          (r.op = "listFiles" /\ r.via = "refresh" /\ Resolved(r) /\ ResultArrives)
              => UNCHANGED <<level, currentBucket, currentPrefix>>]_vars

\* a prefix is empty or ends with "/"
WellFormedPrefix(prefix) == prefix = <<>> \/ prefix[Len(prefix)] = Slash

\* C15: the current prefix is empty or ends with "/", and so is the prefix of
\* every listing call in flight.
C15_PrefixEndsWithDelimiter ==
    /\ WellFormedPrefix(currentPrefix)
    /\ \A r \in Reqs : r.op = "listFiles" => WellFormedPrefix(r.prefix)

\* the nested folder a/b/ is displayed
C15_Witness ==
    /\ level = "files"
    /\ currentPrefix = <<"a", Slash, "b", Slash>>
    /\ foldersOf = Loc(currentBucket, currentPrefix)

\* a step that treats an outcome as non-fatal and requests a listing
RefreshTriggered ==
    /\ toast'.kind # "error"
    /\ \E q \in BagToSet(pending') : q.op = "listFiles" /\ Issued(q)

\* C16: when the result of a transfer whose source key had vanished (NoSuchKey)
\* reaches the browser, or the result of a delete whose key had vanished, the
\* browser reports no error and requests a listing.
C16_NotFoundTriggersRefresh ==
    [][/\ \A r \in Reqs :
             (/\ r.op = "copyFile" /\ r.res # None /\ Resolved(r)
              /\ ~r.res[1].success /\ r.res[1].error = ErrNoSuchKey)
                 => RefreshTriggered
       /\ \A r \in Reqs :
             (/\ r.op = "deleteFile" /\ Resolved(r)
              /\ r.key \notin DOMAIN store[r.bucket])
                 => RefreshTriggered]_vars

\* a step that issues the upload-target request for a file under a prefix
UploadRequested(b, prefix, file, rest) ==
    \E q \in BagToSet(pending') :
        /\ Issued(q)
        /\ q.op = "upload" /\ q.pc = "getUploadUrl"
        /\ q.bucket = b /\ q.key = prefix \o file.name
        /\ q.file = file /\ q.rest = rest

\* C17: a drop requests an upload target for its first file under the current
\* prefix; a file's upload that fails is reported, one that succeeds is
\* reported and requests a listing of its own; and when the handling of a file
\* ends, by failure or after its listing, the upload target of the next
\* dropped file is requested under the same prefix.
C17_UploadsIndependent ==
    [][/\ \A d \in DroppedFiles :
             handleDrop(d) =>
                 UploadRequested(currentBucket, currentPrefix, Head(d), Tail(d))
       /\ \A r \in Reqs :
             (r.op = "upload" /\ Resolved(r)) =>
                 \/ \* the upload target was issued: the PUT is next
                    /\ r.pc = "getUploadUrl"
                    /\ [r EXCEPT !.pc = "fetch"] \in BagToSet(pending')
                    /\ toast'.kind = "none"
                 \/ \* the file is stored: reported, and its listing requested
                    /\ r.pc = "fetch"
                    /\ r.key \in DOMAIN store'[r.bucket]
                    /\ toast'.kind = "success"
                    /\ \E q \in BagToSet(pending') :
                          /\ Issued(q) /\ q.op = "listFiles"
                          /\ q.bucket = r.bucket /\ q.prefix = r.prefix
                          /\ q.cont.kind = "upload" /\ q.cont.rest = r.rest
                 \/ \* the file failed: reported, and the next file is started
                    /\ toast'.kind = "error"
                    /\ store' = store
                    /\ r.rest # <<>> =>
                          UploadRequested(r.bucket, r.prefix, Head(r.rest), Tail(r.rest))
       /\ \A r \in Reqs :
             (/\ r.op = "listFiles" /\ r.cont.kind = "upload" /\ Resolved(r)
              /\ r.cont.rest # <<>>) =>
                 UploadRequested(r.bucket, r.prefix, Head(r.cont.rest), Tail(r.cont.rest))]_vars

\* the second file of a drop has been stored although the first one failed
C17_Witness ==
    /\ toast.kind = "success" /\ toast.msg = "Uploaded" /\ toast.detail = FileG.name
    /\ \A b \in Buckets : \A k \in DOMAIN store[b] : k[Len(k)] # "u"

\* a step that starts a copyFile call for a source object and a target prefix
CopyIssued(source, targetPrefix) ==
    \E q \in BagToSet(pending') :
        /\ Issued(q)
        /\ q.op = "copyFile" /\ q.pc = "copy"
        /\ q.bucket = currentBucket
        /\ q.sourceKey = source.Key
        /\ q.destKey = targetPrefix \o LastSegment(source.Key)

\* C18: a paste and a folder drop that are not no-ops start a copyFile call
\* whose source key is the source object's key and whose destination key is
\* the target prefix followed by the part of the source key after its last
\* "/"; the Copy the store performs for it writes exactly that destination
\* key, with the object found at exactly that source key.
C18_DestinationKey ==
    [][/\ (handlePaste /\ currentBucket # Null
             /\ ~SameKey(clipboard[1].item, currentPrefix))
             => CopyIssued(clipboard[1].item, currentPrefix)
       /\ \A p \in Prefixes :
             (handleFolderDrop(p) /\ ~SameKey(dragData[1], p))
                 => CopyIssued(dragData[1], p)
       /\ \A r \in Reqs :
             (r.op = "copyFile" /\ r.pc = "copy" /\ Resolved(r) /\ store' # store) =>
                 /\ r.sourceKey \in DOMAIN store[r.bucket]
                 /\ store' = [store EXCEPT ![r.bucket] =
                                 (r.destKey :> [Size |-> store[r.bucket][r.sourceKey].Size,
                                                LastModified |-> now + 1])
                                 @@ store[r.bucket]]]_vars

\* a paste of a/g at the bucket's root is waiting for its Copy, to key g
C18_Witness ==
    \E r \in Reqs :
        /\ r.op = "copyFile" /\ r.pc = "copy" /\ ~r.drop
        /\ r.sourceKey = K_ag /\ r.destKey = K_g

\* the keys of the file rows, in the order they are rendered
RenderedKeys == [i \in 1..Len(filteredFiles) |-> filteredFiles[i].Key]

\* the order of the rows of the listing a (size 20, date 1), b (size 10, date 0),
\* g (size 10, date 2) for each sort field and direction; rows that compare
\* equal keep the order of the listing
ExpectedKeys ==
    CASE sortField = "name" /\ sortDirection = "asc"  -> <<K_a, K_b, K_g>>
      [] sortField = "name" /\ sortDirection = "desc" -> <<K_g, K_b, K_a>>
      [] sortField = "size" /\ sortDirection = "asc"  -> <<K_b, K_g, K_a>>
      [] sortField = "size" /\ sortDirection = "desc" -> <<K_a, K_b, K_g>>
      [] sortField = "date" /\ sortDirection = "asc"  -> <<K_b, K_a, K_g>>
      [] sortField = "date" /\ sortDirection = "desc" -> <<K_g, K_a, K_b>>

\* the rows are the files of the listing, each once, in the expected order
RenderedAsSelected ==
    /\ Len(filteredFiles) = Len(files)
    /\ Range(filteredFiles) = Range(files)
    /\ (Len(files) = 3 /\ search = <<>>) => RenderedKeys = ExpectedKeys

\* C19: selecting the active sort field switches the direction to the other
\* of ascending and descending and keeps the field; selecting another field
\* makes it the active one with direction ascending; and the rows are rendered
\* in the order of the active field and direction, so that selecting the
\* active field twice, which restores the direction, restores the order.
C19_SortSelection ==
    [][/\ \A field \in {"name", "size", "date"} :
             handleSort(field) =>
                 /\ sortField' = field
                 /\ IF sortField = field
                    THEN /\ sortDirection' # sortDirection
                         /\ sortDirection' \in {"asc", "desc"}
                    ELSE sortDirection' = "asc"
                 /\ UNCHANGED <<files, folders, search>>
       /\ RenderedAsSelected]_vars

\* the name column, already active, was selected once more: the rows are in
\* descending order of their names
C19_Witness ==
    /\ sortField = "name" /\ sortDirection = "desc"
    /\ Len(files) = 3
    /\ RenderedKeys = <<K_g, K_b, K_a>>

\* the prefixes a listing can be asked for: the root and every folder of a key
QueriedPrefixes(b) ==
    UNION {{SubSeq(k, 1, i) : i \in {j \in 0..Len(k) : j = 0 \/ k[j] = Slash}} :
              k \in DOMAIN store[b]}

\* C20: for every bucket and every prefix, the root included, the files that
\* listFiles returns hold no entry whose key is the prefix itself, and the
\* files displayed hold no entry whose key is the prefix they were listed for.
C20_NoPlaceholderInFiles ==
    /\ \A b \in Buckets : \A prefix \in QueriedPrefixes(b) :
          \A f \in Range(ListFilesResult(b, prefix).files) : f.Key # prefix
    /\ filesOf # NoLoc => \A f \in Range(files) : f.Key # filesOf[2]

\* folder a/ is displayed while the store holds the placeholder object a/
C20_Witness ==
    /\ level = "files" /\ currentPrefix = K_aSlash
    /\ filesOf = Loc(currentBucket, currentPrefix)
    /\ K_aSlash \in DOMAIN store[currentBucket]
    /\ Len(files) = 1

\* C21: the files listFiles returns, and so the files displayed, hold only
\* entries whose key starts with the prefix the listing was asked for, whatever
\* objects the store put into its output.
C21_OnlyKeysUnderPrefix ==
    filesOf # NoLoc => \A f \in Range(files) : StartsWith(f.Key, filesOf[2])

\* a string without its trailing "/"s, and the last non-empty segment of a prefix
RECURSIVE TrimSlashes(_)
TrimSlashes(p) ==
    IF p = <<>> \/ p[Len(p)] # Slash THEN p ELSE TrimSlashes(SubSeq(p, 1, Len(p) - 1))
LastNonEmptySegment(p) == LastSegment(TrimSlashes(p))

\* the keys of bucket b under a prefix, and the part of each below the prefix
KeysUnder(b, prefix) == {k \in DOMAIN store[b] : StartsWith(k, prefix)}
Below(k, prefix) == SubSeq(k, Len(prefix) + 1, Len(k))

\* the first-level folders below a prefix: the prefix with the first segment,
\* and its "/", of every key below it that has a "/" further on
FirstLevelFolders(b, prefix) ==
    {prefix \o FirstSegments(Below(k, prefix), 1) :
        k \in {x \in KeysUnder(b, prefix) : \E i \in 1..Len(Below(x, prefix)) :
                                                 Below(x, prefix)[i] = Slash}}

\* listFiles returns each first-level folder below the prefix once, and no
\* other folder
OneFolderPerSegment(b, prefix) ==
    LET fs == ListFilesResult(b, prefix).folders
    IN  /\ {f.Prefix : f \in Range(fs)} = FirstLevelFolders(b, prefix)
        /\ Len(fs) = Cardinality(FirstLevelFolders(b, prefix))

\* key k is returned as a file and lies in no returned folder
InFilesOnly(b, prefix, k) ==
    /\ \E f \in Range(ListFilesResult(b, prefix).files) : f.Key = k
    /\ \A f \in Range(ListFilesResult(b, prefix).folders) : ~StartsWith(k, f.Prefix)

\* the keys below a prefix that have no "/" after it
DirectKeys(b, prefix) ==
    {k \in KeysUnder(b, prefix) : \A i \in 1..Len(Below(k, prefix)) :
                                      Below(k, prefix)[i] # Slash}

\* C22: for every bucket content and every prefix, listFiles returns exactly
\* one folder per distinct first-level segment below the prefix, each named by
\* the last non-empty segment of its prefix, and every key with no "/" after
\* the prefix is returned as a file and lies in no returned folder.
C22_OneFolderPerSegment ==
    \A b \in Buckets : \A prefix \in QueriedPrefixes(b) :
        /\ OneFolderPerSegment(b, prefix)
        /\ \A f \in Range(ListFilesResult(b, prefix).folders) :
              f.Name = LastNonEmptySegment(f.Prefix)
        /\ \A k \in DirectKeys(b, prefix) : InFilesOnly(b, prefix, k)

\* C22, with the two cases set apart that it leaves out: a folder whose prefix
\* has no non-empty segment is named "Unknown", and the key equal to the prefix
\* itself is returned neither as a file nor in a folder; otherwise there is
\* exactly one folder per distinct first-level segment below the prefix, named
\* by the last non-empty segment of its prefix, and every other key with no "/"
\* after the prefix is returned as a file and lies in no returned folder.
C22_OneFolderPerSegmentNamed ==
    \A b \in Buckets : \A prefix \in QueriedPrefixes(b) :
        /\ OneFolderPerSegment(b, prefix)
        /\ \A f \in Range(ListFilesResult(b, prefix).folders) :
              f.Name = IF LastNonEmptySegment(f.Prefix) # <<>>
                       THEN LastNonEmptySegment(f.Prefix)
                       ELSE <<"Unknown">>
        /\ \A k \in DirectKeys(b, prefix) \ {prefix} : InFilesOnly(b, prefix, k)
        /\ \A f \in Range(ListFilesResult(b, prefix).files) : f.Key # prefix
        /\ \A f \in Range(ListFilesResult(b, prefix).folders) : ~StartsWith(prefix, f.Prefix)

\* folder a/ is displayed for a bucket in which three keys share the segment
\* a: one folder b/ and one file g are shown
C22_Witness ==
    /\ level = "files" /\ currentPrefix = K_aSlash
    /\ filesOf = Loc(currentBucket, currentPrefix)
    /\ DOMAIN store[currentBucket] = {K_ag, K_abg, K_aSlash}
    /\ Len(folders) = 1 /\ folders[1].Name = <<"b">>
    /\ Len(files) = 1 /\ files[1].Key = K_ag

\* a character without its case, and whether sub occurs in s whatever the case
Caseless(c) == CASE c = "A" -> "a" [] c = "F" -> "f" [] OTHER -> c
ContainsCaseless(s, sub) ==
    \E start \in 0..(Len(s) - Len(sub)) :
        \A i \in 1..Len(sub) : Caseless(s[start + i]) = Caseless(sub[i])

\* file a is not after file b in the order of the active sort field
NotAfter(a, b) ==
    CASE sortField = "size" -> a.Size <= b.Size
      [] sortField = "date" -> a.LastModified[2] <= b.LastModified[2]
      [] OTHER -> a.Key = b.Key \/ StrLess(a.Key, b.Key)

\* the rendered files are the files that match the search, each once, in the
\* order of the sort field and direction
RenderedFilesAsSpecified ==
    /\ Range(filteredFiles) = {f \in Range(files) : ContainsCaseless(f.Key, search)}
    /\ Len(filteredFiles) = Cardinality(Range(filteredFiles))
    /\ \A i, j \in 1..Len(filteredFiles) :
          i < j => IF sortDirection = "asc"
                   THEN NotAfter(filteredFiles[i], filteredFiles[j])
                   ELSE NotAfter(filteredFiles[j], filteredFiles[i])

\* the rendered folders are the folders whose name matches the search, in the
\* order of the listing
RenderedFoldersAsSpecified ==
    filteredFolders = SelectSeq(folders, LAMBDA f : ContainsCaseless(f.Name, search))

\* C23: in every state the rendered files are exactly the files whose key
\* contains the search string whatever the case, ordered by the sort field and
\* direction, and the rendered folders are exactly the folders whose name
\* contains it whatever the case, in listing order; a change of the sort field
\* or direction leaves the rendered folders as they are, and the rendered
\* folders change only when the folders or the search string change.
C23_RenderedView ==
    [][/\ RenderedFilesAsSpecified
       /\ RenderedFoldersAsSpecified
       /\ (\E field \in {"name", "size", "date"} : handleSort(field))
             => filteredFolders' = filteredFolders
       /\ UNCHANGED <<folders, search>> => filteredFolders' = filteredFolders]_vars

\* the search string A is applied to the root listing sorted by size,
\* descending: of the files only A is rendered, of the folders only a/
C23_Witness ==
    /\ search = <<"A">> /\ sortField = "size" /\ sortDirection = "desc"
    /\ Len(files) = 3 /\ Len(folders) = 2
    /\ [i \in 1..Len(filteredFiles) |-> filteredFiles[i].Key] = <<K_A>>
    /\ [i \in 1..Len(filteredFolders) |-> filteredFolders[i].Prefix] = <<K_aSlash>>

\* C24: a click on breadcrumb i issues exactly one call, a listFiles call for
\* the current bucket and the prefix made of the first i + 1 segments of the
\* current prefix, each followed by "/", and clears the search filter as
\* openFolder does; for the last breadcrumb that prefix is the current prefix.
C24_OpenBreadcrumb ==
    [][\A i \in 0..(Len(breadcrumbs) - 1) :
          openBreadcrumb(i) =>
              /\ OneListCall(currentBucket, FirstSegments(currentPrefix, i + 1))
              /\ search' = <<>>
              /\ i = Len(breadcrumbs) - 1 => OneListCall(currentBucket, currentPrefix)]_vars

\* C25: a paste that starts a transfer starts it for the clipboard item's key
\* in the bucket whose listing the item was taken from, and the Copy the store
\* then performs reads that bucket.
C25_PasteTransfersClipboardObject ==
    [][handlePaste =>
          \A q \in BagToSet(pending') :
              (q.op = "copyFile" /\ Issued(q)) =>
                  /\ q.sourceKey = clipboard[1].item.Key
                  /\ q.bucket = clipboardOf[1]
                  /\ CopySourceBucket(q.copySource) = clipboardOf[1]]_vars

\* a listing call made for the refresh that follows an upload or a transfer
AfterOperation(r) == r.op = "listFiles" /\ r.cont.kind \in {"upload", "transfer"}

\* C26: the listing call that follows a successful upload or transfer is made
\* for the bucket and prefix displayed when it is made, and the arrival of its
\* response leaves the level, the current bucket and the current prefix as
\* they were.
C26_RefreshAfterOperationKeepsLocation ==
    [][/\ \A q \in BagToSet(pending') :
             (AfterOperation(q) /\ Issued(q)) =>
                 q.bucket = currentBucket /\ q.prefix = currentPrefix
       /\ \A r \in Reqs :
             (AfterOperation(r) /\ Resolved(r)) =>
                 UNCHANGED <<level, currentBucket, currentPrefix>>]_vars

\* the keys of the root listing of SortStore, in the order of the listing
OriginalKeys == <<K_a, K_b, K_g>>

\* the keys of the displayed files, in the order displayed
DisplayedKeys == [i \in 1..Len(files) |-> files[i].Key]

\* C27: with the root listing a, b, g displayed and no navigation, when a
\* delete resolves and leaves no delete in flight, the displayed files are the
\* files of that listing without the keys whose delete succeeded, in the order
\* of the listing; in particular for two deletes of distinct keys issued before
\* either resolved, whatever their outcomes and the order of their answers.
C27_OverlappingDeletes ==
    [][\A r \in Reqs :
          (r.op = "deleteFile" /\ Resolved(r) /\ pending' = EmptyBag) =>
              DisplayedKeys' = SelectSeq(OriginalKeys,
                                         LAMBDA k : k \in DOMAIN store'[r.bucket])]_vars

\* C28: no step replaces an object of the store: a key that holds an object
\* before a step and after it holds the same object, so a copy or a move whose
\* destination key is taken does not overwrite what is there.
C28_NoSilentOverwrite ==
    [][\A b \in DOMAIN store : \A k \in DOMAIN store[b] :
          k \in DOMAIN store'[b] => store'[b][k] = store[b][k]]_vars

\* the browser is at the bucket list, with no bucket context and no listing
AtBucketList ==
    /\ level = "buckets" /\ currentBucket = Null
    /\ files = <<>> /\ folders = <<>>

\* C29: while the latest navigation is a goUp from a bucket's root (or none has
\* been made yet), that is until the user opens a bucket, the browser is at the
\* bucket list with no current bucket and no files and folders, whatever
\* listing response or delete answer arrives.
C29_StaysAtBucketList ==
    nav.bucket = Null => AtBucketList

\* a step in which a handler starts a call: one more call is in flight
CallStarted == BagCardinality(pending') > BagCardinality(pending)

ListingFetches == {r \in Reqs : r.op \in {"listBuckets", "listFiles"}}

\* C31: the loading flag is set exactly when a bucket or file listing fetch is
\* in flight: it stays set while any fetch is pending, also when another one
\* has completed, and it is clear once none is pending.
C31_LoadingWhileFetching ==
    loading <=> ListingFetches # {}

\* the uploads in flight: an uploadFile waiting for its upload target, for its
\* PUT, or for the listing it requested before it returns
UploadsRunning ==
    {r \in Reqs : \/ r.op = "upload"
                  \/ r.op = "listFiles" /\ r.cont.kind = "upload"}

\* C32: the uploading flag is set exactly when an upload is in flight: it
\* stays set while any upload is running, also when another one has completed
\* or failed, and it is clear once none is running.
C32_UploadingWhileUploading ==
    uploading <=> UploadsRunning # {}

====
